---- MODULE Spec2Model ----
(***************************************************************************)
(* Circuit folding for zero-noise extrapolation (mitiq/folding_cirq.py).   *)
(*                                                                         *)
(* A circuit is a sequence of moments, a moment a sequence of operations   *)
(* (cirq's Moment.operations tuple), an operation a gate on one qubit.     *)
(* Moment and gate indices are 0-based as in the Python source; Mom(c, m)  *)
(* converts to TLA+'s 1-based sequences.  A stretch factor is a rational   *)
(* <<numerator, denominator>> with a positive denominator.                 *)
(***************************************************************************)
EXTENDS Integers, Sequences, FiniteSets, TLC

\* ------------------------------------------------------------- bounds
\* Longest input circuit, in moments.
MaxMoments == 2

Qubits == {1, 2}

\* ------------------------------------------------ operations, moments
Gate(q) == [gate |-> "T", qubit |-> q, inv |-> FALSE]

Measure(q) == [gate |-> "M", qubit |-> q, inv |-> FALSE]

_is_measurement(op) == op.gate = "M"

\* cirq.inverse(op): a measurement has no inverse (TypeError, raised by the
\* callers below before this is used).
inverse(op) == [op EXCEPT !.inv = ~@]

inverse_moment(moment) == [i \in DOMAIN moment |-> inverse(moment[i])]

HasMeasurement(moment) == \E i \in DOMAIN moment : _is_measurement(moment[i])

Mom(c, m) == c[m + 1]

MomentQubits(moment) == {moment[i].qubit : i \in DOMAIN moment}

Reverse(s) == [i \in 1..Len(s) |-> s[Len(s) + 1 - i]]

RECURSIVE SumLen(_)
SumLen(c) == IF Len(c) = 0 THEN 0 ELSE Len(Head(c)) + SumLen(Tail(c))

\* len(list(circuit.all_operations()))
all_operations_count(c) == SumLen(c)

NonMeasurement(op) == ~_is_measurement(op)

StripMoment(moment) == SelectSeq(moment, NonMeasurement)

GateCount(c) == SumLen([i \in DOMAIN c |-> StripMoment(c[i])])

\* ------------------------------------------------------- outcomes
\* What a call produces: a circuit (err = "none") or a raised exception.
Ok(c) == [err |-> "none", circuit |-> c]

Raise(e) == [err |-> e, circuit |-> << >>]

InvalidCircuit == "ValueError: intermediate measurements"

InvalidStretch == "ValueError: stretch"

\* ------------------------------------------------------- rationals
RLe(a, b) == a[1] * b[2] <= b[1] * a[2]

RLt(a, b) == a[1] * b[2] < b[1] * a[2]

REq(a, b) == a[1] * b[2] = b[1] * a[2]

Abs(x) == IF x < 0 THEN -x ELSE x

\* Python's round() of the rational a / b (b > 0): ties go to the even integer.
RoundHalfEven(a, b) ==
    LET q == a \div b
        r == a - q * b
    IN IF 2 * r < b THEN q
       ELSE IF 2 * r > b THEN q + 1
       ELSE IF q % 2 = 0 THEN q ELSE q + 1

\* np.isclose(stretch, target, atol): |stretch - target| <= atol + rtol * |target|
\* with numpy's default rtol = 1e-5; atol is given in units of 1e-5.
isclose(stretch, target, atolUnits) ==
    Abs(stretch[1] - target * stretch[2]) * 100000
        <= (atolUnits + 1 * target) * stretch[2]

\* atol=1e-3 of fold_gates_at_random, atol=1e-2 of fold_local
AtolThree == 100

AtolOne == 1000

\* ---------------------------------------------- cirq.Circuit methods
\* circuit.are_all_measurements_terminal(): no later moment operates on a
\* measured qubit.
are_all_measurements_terminal(c) ==
    \A i \in DOMAIN c : \A k \in DOMAIN c[i] :
        _is_measurement(c[i][k]) =>
            \A j \in (i + 1)..Len(c) : c[i][k].qubit \notin MomentQubits(c[j])

\* circuit.findall_operations(_is_measurement): (moment index, op) pairs in
\* moment order, then in the order of the moment's operations.
RECURSIVE FindMeasurements(_, _)
FindMeasurements(c, m) ==
    IF m >= Len(c) THEN << >>
    ELSE LET ms == SelectSeq(Mom(c, m), _is_measurement)
         IN [i \in DOMAIN ms |-> <<m, ms[i]>>] \o FindMeasurements(c, m + 1)

\* circuit.batch_remove(measurements): the operations leave their moments,
\* the moments stay (possibly empty).
batch_remove_measurements(c) == [i \in DOMAIN c |-> StripMoment(c[i])]

_can_add_op_at(c, m, op) ==
    ~(0 <= m /\ m < Len(c)) \/ op.qubit \notin MomentQubits(Mom(c, m))

RECURSIVE _prev_moment_available(_, _, _)
_prev_moment_available(c, op, k) ==
    IF k > 0 /\ _can_add_op_at(c, k - 1, op)
    THEN _prev_moment_available(c, op, k - 1)
    ELSE k

ReplaceMoment(c, m, moment) ==
    SubSeq(c, 1, m) \o <<moment>> \o SubSeq(c, m + 2, Len(c))

InsertMomentAt(c, m, moment) ==
    SubSeq(c, 1, m) \o <<moment>> \o SubSeq(c, m + 1, Len(c))

RECURSIVE PadTo(_, _)
PadTo(c, p) == IF p >= Len(c) THEN PadTo(Append(c, << >>), p) ELSE c

\* Circuit._pick_or_create_inserted_op_moment_index for InsertStrategy.EARLIEST,
\* falling back to INLINE and then NEW: <<circuit, moment index>>.
PickEarliest(c, k, op) ==
    IF _can_add_op_at(c, k, op)
    THEN <<c, _prev_moment_available(c, op, k)>>
    ELSE IF 0 <= k - 1 /\ k - 1 < Len(c) /\ _can_add_op_at(c, k - 1, op)
         THEN <<c, k - 1>>
         ELSE <<InsertMomentAt(c, k, << >>), k>>

Max(a, b) == IF a >= b THEN a ELSE b

Min(a, b) == IF a <= b THEN a ELSE b

\* circuit.insert(k, ops, strategy=EARLIEST) for a list of operations.
RECURSIVE InsertEarliest(_, _, _)
InsertEarliest(c, k, ops) ==
    IF Len(ops) = 0 THEN c
    ELSE LET pick == PickEarliest(c, k, Head(ops))
             p == pick[2]
             padded == PadTo(pick[1], p)
             placed == ReplaceMoment(padded, p, Append(Mom(padded, p), Head(ops)))
         IN InsertEarliest(placed, Max(k, p + 1), Tail(ops))

\* A fold that leaves the inverse out: G -> G G.
InsertNewWithoutInverse(c, m, op) ==
    SubSeq(c, 1, m) \o << <<op>>, <<op>> >> \o SubSeq(c, m + 1, Len(c))

\* A fold that puts the new moments behind the moment at index m.
InsertNewAfter(c, m, op) ==
    SubSeq(c, 1, m + 1) \o << <<op>>, <<inverse(op)>> >> \o SubSeq(c, m + 2, Len(c))

\* circuit.insert(m, [op, inverse(op)], strategy=InsertStrategy.NEW): each
\* operation gets a moment of its own, ahead of the moment now at index m.
InsertNew(c, m, op) ==
    SubSeq(c, 1, m) \o << <<op>>, <<inverse(op)>> >> \o SubSeq(c, m + 1, Len(c))

\* ------------------------------------------------ measurement helpers
_pop_measurements(c) == FindMeasurements(c, 0)

\* Every insertion is made at moment index -1, in one group, reversed.
_append_measurements(c, measurements) ==
    IF Len(measurements) = 0 THEN c
    ELSE InsertEarliest(c, Max(Min(Len(c) - 1, Len(c)), 0),
                        Reverse([i \in DOMAIN measurements |-> measurements[i][2]]))

\* _append_measurements(folded, measurements); return folded -- unless an
\* exception was raised before.
AppendTo(r, measurements) ==
    IF r.err # "none" THEN r ELSE Ok(_append_measurements(r.circuit, measurements))

AppendToResult(res, measurements) ==
    [out |-> AppendTo(res.out, measurements), rng |-> res.rng]

\* ------------------------------------------------- gate level folding
_fold_gate_at_index_in_moment(c, moment_index, gate_index) ==
    IF moment_index >= Len(c) THEN Raise("IndexError")
    ELSE IF gate_index >= Len(Mom(c, moment_index)) THEN Raise("IndexError")
    ELSE IF _is_measurement(Mom(c, moment_index)[gate_index + 1]) THEN Raise("TypeError")
    ELSE Ok(InsertNew(c, moment_index, Mom(c, moment_index)[gate_index + 1]))

_get_num_to_fold(stretch, ngates) ==
    RoundHalfEven(ngates * (stretch[1] - stretch[2]), 2 * stretch[2])

\* The loop of fold_gates_from_left over the moments and gate positions of
\* the caller's circuit; moment_shift is 2 * num_folded throughout.
RECURSIVE LeftLoop(_, _, _, _, _, _)
LeftLoop(circuit, folded, moment_index, gate_index, num_folded, num_to_fold) ==
    IF moment_index >= Len(circuit) THEN Raise("None")
    ELSE IF gate_index >= Len(Mom(circuit, moment_index))
    THEN LeftLoop(circuit, folded, moment_index + 1, 0, num_folded, num_to_fold)
    ELSE LET r == _fold_gate_at_index_in_moment(
                      folded, moment_index + 2 * num_folded, gate_index)
         IN IF r.err # "none" THEN r
            ELSE IF num_folded + 1 = num_to_fold THEN r
            ELSE LeftLoop(circuit, r.circuit, moment_index, gate_index + 1,
                          num_folded + 1, num_to_fold)

One == <<1, 1>>

Three == <<3, 1>>

fold_gates_from_left(circuit, stretch) ==
    IF ~are_all_measurements_terminal(circuit) THEN Raise(InvalidCircuit)
    ELSE IF ~(RLe(One, stretch) /\ RLe(stretch, Three)) THEN Raise(InvalidStretch)
    ELSE LET measurements == _pop_measurements(circuit)
             folded == batch_remove_measurements(circuit)
             ngates == all_operations_count(folded)
             num_to_fold == _get_num_to_fold(stretch, ngates)
         IN IF num_to_fold = 0 THEN Ok(_append_measurements(folded, measurements))
            ELSE AppendTo(LeftLoop(circuit, folded, 0, 0, 0, num_to_fold), measurements)

\* Circuit(reversed(reversed_folded_circuit)), when fold_gates_from_left
\* returned one.
Reversed(r) == IF r.err # "none" THEN r ELSE Ok(Reverse(r.circuit))

\* fold_gates_from_right pops the measurements from the circuit it was given,
\* not from a copy: [out |-> the outcome, circuit |-> the caller's circuit after].
fold_gates_from_right(circuit, stretch) ==
    IF ~are_all_measurements_terminal(circuit)
    THEN [out |-> Raise(InvalidCircuit), circuit |-> circuit]
    ELSE LET measurements == _pop_measurements(circuit)
             popped == batch_remove_measurements(circuit)
             reversed_folded_circuit == fold_gates_from_left(Reverse(popped), stretch)
         IN [out |-> AppendTo(Reversed(reversed_folded_circuit), measurements),
             circuit |-> popped]

\* _fold_gates_in_moment: the i-th fold is applied at moment_index + 2 * i.
RECURSIVE _fold_gates_in_moment(_, _, _, _)
_fold_gates_in_moment(c, moment_index, gate_indices, i) ==
    IF i >= Len(gate_indices) THEN Ok(c)
    ELSE LET r == _fold_gate_at_index_in_moment(
                      c, moment_index + 2 * i, gate_indices[i + 1])
         IN IF r.err # "none" THEN r
            ELSE _fold_gates_in_moment(r.circuit, moment_index, gate_indices, i + 1)

RECURSIVE FoldGatesLoop(_, _, _, _, _)
FoldGatesLoop(folded, moment_indices, gate_indices, i, moment_index_shift) ==
    IF i >= Len(moment_indices) THEN Ok(folded)
    ELSE LET r == _fold_gates_in_moment(
                      folded, moment_indices[i + 1] + moment_index_shift,
                      gate_indices[i + 1], 0)
         IN IF r.err # "none" THEN r
            ELSE FoldGatesLoop(r.circuit, moment_indices, gate_indices, i + 1,
                               moment_index_shift + 2 * Len(gate_indices[i + 1]))

fold_gates(circuit, moment_indices, gate_indices) ==
    FoldGatesLoop(circuit, moment_indices, gate_indices, 0, 0)

\* _fold_moments: circuit.insert(i + shift, [M, inverse(M)]) puts the two
\* moments ahead of the moment at i + shift; inverse(M) raises TypeError when
\* M holds a measurement.
RECURSIVE _fold_moments(_, _, _)
_fold_moments(c, moment_indices, shift) ==
    IF Len(moment_indices) = 0 THEN Ok(c)
    ELSE LET m == Head(moment_indices) + shift
         IN IF m >= Len(c) THEN Raise("IndexError")
            ELSE IF HasMeasurement(Mom(c, m)) THEN Raise("TypeError")
            ELSE _fold_moments(
                     SubSeq(c, 1, m) \o <<Mom(c, m), inverse_moment(Mom(c, m))>>
                         \o SubSeq(c, m + 1, Len(c)),
                     Tail(moment_indices), shift + 2)

fold_moments(circuit, moment_indices) == _fold_moments(circuit, moment_indices, 0)

_fold_all_gates_locally(c) ==
    _fold_moments(c, [i \in 1..Len(c) |-> i - 1], 0)

\* ------------------------------------------------- numpy's generator
\* np.random is a deterministic generator with a global state: a draw is a
\* function of the state and advances it.  The state is a number in 0..15.
NextRng(r) == (5 * r + 3) % 16

\* np.random.seed(seed)
SeedState(seed) == (7 * seed + 1) % 16

\* np.random.choice(list): <<the element drawn, the generator's next state>>
Choice(list, r) ==
    LET r2 == NextRng(r)
    IN <<list[((r2 * Len(list)) \div 16) + 1], r2>>

RemoveValue(list, v) == SelectSeq(list, LAMBDA x : x # v)

\* The seed argument is << >> (None, or not given) or <<seed>>; `if seed:`
\* holds for an integer other than 0.
SeedGiven(seedarg) == Len(seedarg) > 0 /\ seedarg[1] # 0

\* An update that leaves the index of the folded moment itself as it was.
UpdateLaterOnly(moment_indices, folded_at) ==
    [i \in DOMAIN moment_indices |->
        moment_indices[i] + 2 * (IF i > folded_at THEN 1 ELSE 0)]

_update_moment_indices(moment_indices, folded_at) ==
    [i \in DOMAIN moment_indices |->
        moment_indices[i] + 2 * (IF i >= folded_at THEN 1 ELSE 0)]

\* The loop of fold_gates_at_random after `todo` more iterations: the working
\* circuit or the exception raised, the generator, and the two maps.
RECURSIVE RandomLoop(_, _, _, _, _, _)
RandomLoop(folded, moment_indices, remaining_gate_indices, remaining_moment_indices, todo, r) ==
    IF todo = 0
    THEN [out |-> Ok(folded), rng |-> r, moment_indices |-> moment_indices,
          remaining_gate_indices |-> remaining_gate_indices,
          remaining_moment_indices |-> remaining_moment_indices]
    ELSE IF Len(remaining_moment_indices) = 0
    THEN [out |-> Raise("ValueError: empty choice"), rng |-> r,
          moment_indices |-> moment_indices,
          remaining_gate_indices |-> remaining_gate_indices,
          remaining_moment_indices |-> remaining_moment_indices]
    ELSE LET d1 == Choice(remaining_moment_indices, r)
             moment_index == d1[1]
             d2 == Choice(remaining_gate_indices[moment_index], d1[2])
             gate_index == d2[1]
             f == _fold_gate_at_index_in_moment(
                      folded, moment_indices[moment_index], gate_index)
             left == RemoveValue(remaining_gate_indices[moment_index], gate_index)
         IN IF f.err # "none"
            THEN [out |-> f, rng |-> d2[2], moment_indices |-> moment_indices,
                  remaining_gate_indices |-> remaining_gate_indices,
                  remaining_moment_indices |-> remaining_moment_indices]
            ELSE RandomLoop(
                     f.circuit,
                     _update_moment_indices(moment_indices, moment_index),
                     [remaining_gate_indices EXCEPT ![moment_index] = left],
                     IF Len(left) = 0
                     THEN RemoveValue(remaining_moment_indices, moment_index)
                     ELSE remaining_moment_indices,
                     todo - 1, d2[2])

\* The first `todo` iterations of the loop, from the maps built on the
\* caller's circuit (lines 269-275) and the measurement-stripped copy.
RandomFolds(circuit, folded, todo, r0) ==
    RandomLoop(folded,
               [i \in 0..(Len(circuit) - 1) |-> i],
               [m \in 0..(Len(circuit) - 1) |->
                   [j \in 1..Len(Mom(circuit, m)) |-> j - 1]],
               SelectSeq([i \in 1..Len(circuit) |-> i - 1],
                         LAMBDA m : Len(Mom(circuit, m)) > 0),
               todo, r0)

\* np.random.seed(seed) under `if seed:`.
Seeded(seedarg, r) == IF SeedGiven(seedarg) THEN SeedState(seedarg[1]) ELSE r

\* fold_gates_at_random(circuit, stretch, seed) with the generator in state r.
fold_gates_at_random(circuit, stretch, seedarg, r) ==
    IF ~are_all_measurements_terminal(circuit)
    THEN [out |-> Raise(InvalidCircuit), rng |-> r]
    ELSE IF ~(RLe(One, stretch) /\ RLe(stretch, Three))
    THEN [out |-> Raise(InvalidStretch), rng |-> r]
    ELSE LET measurements == _pop_measurements(circuit)
             folded == batch_remove_measurements(circuit)
         IN IF isclose(stretch, 3, AtolThree)
            THEN [out |-> Ok(_append_measurements(
                                 _fold_all_gates_locally(folded).circuit, measurements)),
                  rng |-> r]
            ELSE AppendToResult(
                     RandomFolds(circuit, folded,
                                 _get_num_to_fold(stretch, all_operations_count(folded)),
                                 Seeded(seedarg, r)),
                     measurements)

\* ------------------------------------------------------ fold_local
\* A local strategy and its extra arguments: fold_method, fold_method_args.
Method(name, seedarg) == [name |-> name, args |-> seedarg]

\* fold_method(folded, this_stretch, *fold_method_args): [out, rng]
ApplyMethod(method, c, stretch, r) ==
    IF method.name = "left" THEN [out |-> fold_gates_from_left(c, stretch), rng |-> r]
    ELSE IF method.name = "right"
    THEN [out |-> fold_gates_from_right(c, stretch).out, rng |-> r]
    ELSE fold_gates_at_random(c, stretch, method.args, r)

\* A composer that divides the remaining stretch by 2.
DivideByTwo(stretch) == <<stretch[1], 2 * stretch[2]>>

\* stretch /= 3.
DivideByThree(stretch) == <<stretch[1], 3 * stretch[2]>>

\* A stage that takes the whole remaining stretch.
WholeStretch(stretch) == stretch

\* this_stretch = 3. if stretch > 3. else stretch
ThisStretch(stretch) == IF RLt(Three, stretch) THEN Three ELSE stretch

\* The while loop of fold_local.
RECURSIVE LocalLoop(_, _, _, _)
\* stretch /= 3. and the next turn of the loop, unless fold_method raised.
LocalNext(res, stretch, method) ==
    IF res.out.err # "none" THEN res
    ELSE LocalLoop(res.out.circuit, DivideByThree(stretch), method, res.rng)

LocalLoop(folded, stretch, method, r) ==
    IF ~RLt(One, stretch) THEN [out |-> Ok(folded), rng |-> r]
    ELSE LocalNext(ApplyMethod(method, folded, ThisStretch(stretch), r), stretch, method)

fold_local(circuit, stretch, method, r) ==
    IF isclose(stretch, 1, AtolOne) THEN [out |-> Ok(circuit), rng |-> r]
    ELSE IF ~RLe(One, stretch) THEN [out |-> Raise(InvalidStretch), rng |-> r]
    ELSE LocalLoop(circuit, stretch, method, r)

\* ----------------------------------------------------- fold_global
\* inverse(base_circuit): the moments in reverse order, each inverted.
inverse_circuit(c) == Reverse([i \in DOMAIN c |-> inverse_moment(c[i])])

\* for _ in range(num_global_folds): folded += Circuit(inverse(base), base)
RECURSIVE GlobalFolds(_, _, _)
GlobalFolds(folded, base_circuit, num_global_folds) ==
    IF num_global_folds <= 0 THEN folded
    ELSE GlobalFolds(folded \o inverse_circuit(base_circuit) \o base_circuit,
                     base_circuit, num_global_folds - 1)

\* int(stretch // 3)
NumGlobalFolds(stretch) == stretch[1] \div (3 * stretch[2])

\* stretch % 3
FractionalStretch(stretch) ==
    <<stretch[1] - 3 * NumGlobalFolds(stretch) * stretch[2], stretch[2]>>

\* 2. * num_to_fold_locally / len(list(circuit.all_operations())) + 1.
AdjustedStretch(num_to_fold_locally, nops) == <<2 * num_to_fold_locally + nops, nops>>

fold_global(circuit, stretch, method, r) ==
    IF ~RLe(One, stretch) THEN [out |-> Raise(InvalidStretch), rng |-> r]
    ELSE IF ~are_all_measurements_terminal(circuit)
    THEN [out |-> Raise(InvalidCircuit), rng |-> r]
    ELSE IF all_operations_count(circuit) = 0
    THEN [out |-> Raise("ZeroDivisionError"), rng |-> r]
    ELSE AppendToResult(
             fold_local(
                 GlobalFolds(batch_remove_measurements(circuit),
                             batch_remove_measurements(circuit),
                             NumGlobalFolds(stretch)),
                 AdjustedStretch(
                     _get_num_to_fold(FractionalStretch(stretch),
                                      all_operations_count(circuit)),
                     all_operations_count(circuit)),
                 method, r),
             _pop_measurements(circuit))

\* ------------------------------------------------------------ inputs
\* What a moment may hold on one qubit: nothing, a gate, a measurement.
QubitContent(q) == {<< >>, <<Gate(q)>>, <<Measure(q)>>}

\* The moments of the input circuits, their operations in qubit order.
InputMoments == {a \o b : a \in QubitContent(1), b \in QubitContent(2)}

InputCircuits == UNION {[1..n -> InputMoments] : n \in 0..MaxMoments}

\* Stretch factors tried on the three local strategies (required: [1, 3]).
StrategyStretches ==
    {<<1, 2>>, <<1, 1>>, <<3, 2>>, <<2, 1>>, <<5, 2>>, <<3071, 1024>>, <<3, 1>>, <<7, 2>>}

\* Stretch factors tried on fold_global (required: >= 1).
ComposerStretches ==
    {<<1, 2>>, <<127, 128>>, <<1, 1>>, <<129, 128>>, <<3, 2>>, <<2, 1>>, <<5, 2>>,
     <<3, 1>>, <<7, 2>>, <<4, 1>>, <<9, 2>>, <<6, 1>>, <<15, 2>>, <<9, 1>>}

\* Stretch factors tried on fold_local (required: >= 1).  Python computes in
\* binary floating point, the model in exact rationals; the two agree on the
\* factors kept here.  On 7/2 and 4 they do not: stretch / 3. is 7/6 and 4/3,
\* no binary fraction, and where n * (stretch - 1) / 2 is exactly a half the
\* float falls to one side of the tie that round() breaks to even.
LocalStretches == ComposerStretches \ {<<7, 2>>, <<4, 1>>}

\* seed: not given, or an integer.
SeedArgs == {<< >>, <<0>>, <<1>>}

Methods ==
    {Method("left", << >>), Method("right", << >>)}
        \cup {Method("random", a) : a \in {<< >>, <<1>>}}

\* The generator's state when the first call is made.
AmbientRng == {0, 11}

\* Lists of distinct moment indices of a circuit of n moments, in any order.
IndexLists(n, maxlen) ==
    {s \in UNION {[1..k -> 0..(n - 1)] : k \in 0..maxlen} :
        \A i, j \in DOMAIN s : i # j => s[i] # s[j]}

GateIndexLists == {<<0>>, <<0, 1>>}

\* ------------------------------------------------------------- state
VARIABLES
    circuit,    \* the caller's circuit
    rng,        \* the state of numpy's global generator
    pc,         \* "idle", "returned", "returned_again"
    call,       \* the call made: the function, its arguments, the circuit and
                \* the generator state it was given
    out,        \* what the call returned or raised
    prev        \* what the earlier call with the same arguments produced

vars == <<circuit, rng, pc, call, out, prev>>

Args(fn, stretch, seedarg, method, moment_indices, gate_indices) ==
    [fn |-> fn, input |-> circuit, rng |-> rng, stretch |-> stretch,
     seedarg |-> seedarg, method |-> method,
     moment_indices |-> moment_indices, gate_indices |-> gate_indices]

NoMethod == Method("none", << >>)

Init ==
    /\ circuit \in InputCircuits
    /\ rng \in AmbientRng
    /\ pc = "idle"
    /\ call = Args("none", One, << >>, NoMethod, << >>, << >>)
    /\ out = Raise("no call")
    /\ prev = Raise("no call")

CallFoldGatesFromLeft ==
    /\ pc = "idle"
    /\ \E stretch \in StrategyStretches :
        /\ call' = Args("fold_gates_from_left", stretch, << >>, NoMethod, << >>, << >>)
        /\ out' = fold_gates_from_left(circuit, stretch)
    /\ pc' = "returned"
    /\ UNCHANGED <<circuit, rng, prev>>

CallFoldGatesFromRight ==
    /\ pc = "idle"
    /\ \E stretch \in StrategyStretches :
        LET res == fold_gates_from_right(circuit, stretch)
        IN /\ call' = Args("fold_gates_from_right", stretch, << >>, NoMethod, << >>, << >>)
           /\ out' = res.out
           /\ circuit' = res.circuit
    /\ pc' = "returned"
    /\ UNCHANGED <<rng, prev>>

CallFoldGatesAtRandom ==
    /\ pc = "idle"
    /\ \E stretch \in StrategyStretches, seedarg \in SeedArgs :
        LET res == fold_gates_at_random(circuit, stretch, seedarg, rng)
        IN /\ call' = Args("fold_gates_at_random", stretch, seedarg, NoMethod, << >>, << >>)
           /\ out' = res.out
           /\ rng' = res.rng
    /\ pc' = "returned"
    /\ UNCHANGED <<circuit, prev>>

\* The caller repeats its fold_gates_at_random call with the same arguments.
CallFoldGatesAtRandomAgain ==
    /\ pc = "returned"
    /\ call.fn = "fold_gates_at_random"
    /\ LET res == fold_gates_at_random(circuit, call.stretch, call.seedarg, rng)
       IN /\ out' = res.out
          /\ rng' = res.rng
    /\ prev' = out
    /\ call' = [call EXCEPT !.rng = rng]
    /\ pc' = "returned_again"
    /\ UNCHANGED circuit

\* _fold_gate_at_index_in_moment modifies the circuit it is given and returns
\* None; an exception leaves the circuit as it was.
CallFoldGateAtIndexInMoment ==
    /\ pc = "idle"
    /\ \E moment_index \in 0..Len(circuit), gate_index \in 0..Cardinality(Qubits) :
        LET r == _fold_gate_at_index_in_moment(circuit, moment_index, gate_index)
        IN /\ call' = Args("_fold_gate_at_index_in_moment", One, << >>, NoMethod,
                          <<moment_index>>, << <<gate_index>> >>)
           /\ circuit' = IF r.err = "none" THEN r.circuit ELSE circuit
           /\ out' = IF r.err = "none" THEN Raise("None") ELSE r
    /\ pc' = "returned"
    /\ UNCHANGED <<rng, prev>>

CallFoldGates ==
    /\ pc = "idle"
    /\ \E moment_indices \in IndexLists(Len(circuit), 2) :
       \E gate_indices \in [DOMAIN moment_indices -> GateIndexLists] :
        /\ Len(moment_indices) > 0
        /\ call' = Args("fold_gates", One, << >>, NoMethod, moment_indices, gate_indices)
        /\ out' = fold_gates(circuit, moment_indices, gate_indices)
    /\ pc' = "returned"
    /\ UNCHANGED <<circuit, rng, prev>>

CallFoldMoments ==
    /\ pc = "idle"
    /\ \E moment_indices \in IndexLists(Len(circuit), MaxMoments) :
        /\ call' = Args("fold_moments", One, << >>, NoMethod, moment_indices, << >>)
        /\ out' = fold_moments(circuit, moment_indices)
    /\ pc' = "returned"
    /\ UNCHANGED <<circuit, rng, prev>>

CallFoldLocal ==
    /\ pc = "idle"
    /\ \E stretch \in LocalStretches, method \in Methods :
        LET res == fold_local(circuit, stretch, method, rng)
        IN /\ call' = Args("fold_local", stretch, << >>, method, << >>, << >>)
           /\ out' = res.out
           /\ rng' = res.rng
    /\ pc' = "returned"
    /\ UNCHANGED <<circuit, prev>>

CallFoldGlobal ==
    /\ pc = "idle"
    /\ \E stretch \in ComposerStretches, method \in Methods :
        LET res == fold_global(circuit, stretch, method, rng)
        IN /\ call' = Args("fold_global", stretch, << >>, method, << >>, << >>)
           /\ out' = res.out
           /\ rng' = res.rng
    /\ pc' = "returned"
    /\ UNCHANGED <<circuit, prev>>

Next ==
    \/ CallFoldGatesFromLeft
    \/ CallFoldGatesFromRight
    \/ CallFoldGatesAtRandom
    \/ CallFoldGatesAtRandomAgain
    \/ CallFoldGateAtIndexInMoment
    \/ CallFoldGates
    \/ CallFoldMoments
    \/ CallFoldLocal
    \/ CallFoldGlobal

Spec == Init /\ [][Next]_vars

\* -------------------------------------------------------- properties
Returned == pc \in {"returned", "returned_again"}

Strategies == {"fold_gates_from_left", "fold_gates_from_right", "fold_gates_at_random"}

Composers == {"fold_local", "fold_global"}

\* The seven exposed fold functions.
Exposed == Strategies \cup Composers \cup {"fold_gates", "fold_moments"}

InRange(stretch) == RLe(One, stretch) /\ RLe(stretch, Three)

Range(s) == {s[i] : i \in DOMAIN s}

\* The same moments holding the same operations.
SameCircuit(a, b) ==
    /\ Len(a) = Len(b)
    /\ \A i \in DOMAIN a : Range(a[i]) = Range(b[i])

RECURSIVE Flatten(_)
Flatten(c) == IF Len(c) = 0 THEN << >> ELSE Head(c) \o Flatten(Tail(c))

\* The operations on qubit q, in circuit order.
QubitSeq(c, q) == SelectSeq(Flatten(c), LAMBDA op : op.qubit = q)

Inverses(a, b) ==
    /\ ~_is_measurement(a)
    /\ a.gate = b.gate /\ a.qubit = b.qubit /\ a.inv # b.inv

\* Cancel adjacent pairs G, G^-1 and G^-1, G until none is left.
RECURSIVE CancelOnto(_, _)
CancelOnto(stack, ops) ==
    IF Len(ops) = 0 THEN stack
    ELSE IF Len(stack) > 0 /\ Inverses(stack[Len(stack)], Head(ops))
    THEN CancelOnto(SubSeq(stack, 1, Len(stack) - 1), Tail(ops))
    ELSE CancelOnto(Append(stack, Head(ops)), Tail(ops))

Cancel(ops) == CancelOnto(<< >>, ops)

MeasurementsOf(c) == SelectSeq(Flatten(c), _is_measurement)

\* The same error, or the same circuit (cirq compares the operations of a
\* moment as a set).
SameOutcome(a, b) == a.err = b.err /\ SameCircuit(a.circuit, b.circuit)

\* C1: for a circuit whose measurements are all terminal, with n gates, and a
\* stretch in [1, 3], each of the three local strategies returns a circuit of
\* exactly n + 2 * round(n * (stretch - 1) / 2) gates.
C1_GateCount ==
    (/\ Returned
     /\ call.fn \in Strategies
     /\ are_all_measurements_terminal(call.input)
     /\ InRange(call.stretch))
    => /\ out.err = "none"
       /\ GateCount(out.circuit)
              = GateCount(call.input)
                    + 2 * _get_num_to_fold(call.stretch, GateCount(call.input))

\* C2: none of the seven exposed fold functions mutates the caller's circuit,
\* whether the call returns or raises.
C2_InputNotMutated ==
    (Returned /\ call.fn \in Exposed) => SameCircuit(circuit, call.input)

\* C3: at stretch = 1, on a circuit whose measurements are all terminal, the
\* local strategies, fold_local and fold_global return the input circuit: the
\* same operations in the same moments, measurements included.
C3_StretchOneIdentity ==
    (/\ Returned
     /\ call.fn \in Strategies \cup Composers
     /\ are_all_measurements_terminal(call.input)
     /\ call.stretch = One)
    => /\ out.err = "none"
       /\ SameCircuit(out.circuit, call.input)

\* C4: in every returned circuit, for an input that holds measurements, all
\* measurements sit in the final moment, each measurement of the input
\* appears exactly once, and none is inverted.
C4_MeasurementsFinal ==
    (/\ Returned
     /\ out.err = "none"
     /\ Len(MeasurementsOf(call.input)) > 0)
    => /\ \A i \in 1..(Len(out.circuit) - 1) : ~HasMeasurement(out.circuit[i])
       /\ Range(MeasurementsOf(out.circuit)) = Range(MeasurementsOf(call.input))
       /\ Len(MeasurementsOf(out.circuit)) = Len(MeasurementsOf(call.input))

\* C5: two fold_gates_at_random calls with the same integer seed, circuit and
\* stretch produce the same result, whatever the generator's state before
\* each call.
C5_SeededDeterminism ==
    (pc = "returned_again" /\ Len(call.seedarg) > 0) => SameOutcome(out, prev)

\* C6: cancelling adjacent pairs G, G^-1 in each qubit's sequence of
\* operations of a returned circuit yields that qubit's sequence of
\* operations in the input circuit, the measurements at its end included.
C6_ActionPreserved ==
    (Returned /\ out.err = "none")
    => \A q \in Qubits : Cancel(QubitSeq(out.circuit, q)) = QubitSeq(call.input, q)

\* A global fold and a local finish were made on a circuit with gates and
\* measurements.
C6_Witness ==
    /\ Returned
    /\ out.err = "none"
    /\ call.fn = "fold_global"
    /\ call.stretch = <<9, 2>>
    /\ Len(MeasurementsOf(call.input)) > 0
    /\ GateCount(out.circuit) > 3 * GateCount(call.input)

\* The factors of the local strategies.
Factors == {s \in StrategyStretches : InRange(s)}

Times(a, b) == <<a[1] * b[1], a[2] * b[2]>>

\* The strategy applied with factor s1, then with factor s2 to the result.
SecondStage(a, s2, method) ==
    IF a.out.err # "none" THEN a.out
    ELSE ApplyMethod(method, a.out.circuit, s2, a.rng).out

TwoStages(c, s1, s2, method, r) ==
    SecondStage(ApplyMethod(method, c, s1, r), s2, method)

\* C7 as stated: fold_local with stretch s1 * s2, s1 and s2 in [1, 3], returns
\* what the strategy applied with s1 and then with s2 returns.
C7_AnyFactors ==
    (Returned /\ call.fn = "fold_local")
    => \A s1 \in Factors, s2 \in Factors :
           REq(call.stretch, Times(s1, s2))
               => SameOutcome(out, TwoStages(call.input, s1, s2, call.method, call.rng))

\* C7 amended: fold_local with stretch 3 * s2, s2 in [1, 3], returns (or
\* raises) what the strategy applied with factor 3 and then with factor s2 to
\* the result returns (or raises).
C7_FirstFactorThree ==
    (Returned /\ call.fn = "fold_local")
    => \A s2 \in Factors :
           REq(call.stretch, Times(Three, s2))
               => SameOutcome(out,
                              TwoStages(call.input, Three, s2, call.method, call.rng))

\* fold_local made two stages, 3 and 3/2, and the second one folded gates.
C7_Witness ==
    /\ Returned
    /\ call.fn = "fold_local"
    /\ call.stretch = <<9, 2>>
    /\ out.err = "none"
    /\ GateCount(out.circuit) > 3 * GateCount(call.input)
    /\ GateCount(call.input) > 0

\* Python's ValueError, raised for an invalid stretch and an invalid circuit.
ValueErrors == {InvalidStretch, InvalidCircuit}

\* C8: every entry point raises an error and returns no circuit when the
\* stretch is outside its range: [1, 3] for the local strategies, >= 1 for
\* fold_local and fold_global.
C8_StretchRangeError ==
    (/\ Returned
     /\ \/ call.fn \in Strategies /\ ~InRange(call.stretch)
        \/ call.fn \in Composers /\ RLt(call.stretch, One))
    => out.err \in ValueErrors

\* C9: on a circuit with a non-terminal measurement, the local strategies,
\* fold_local and fold_global raise the invalid-circuit error for every
\* stretch in their range.
C9_NonTerminalError ==
    (/\ Returned
     /\ ~are_all_measurements_terminal(call.input)
     /\ \/ call.fn \in Strategies /\ InRange(call.stretch)
        \/ call.fn \in Composers /\ RLe(One, call.stretch))
    => out.err = InvalidCircuit

\* C10: fold_global returns a circuit, and raises nothing, for every circuit
\* whose measurements are all terminal and every stretch >= 1.
C10_GlobalAcceptsAll ==
    (/\ Returned
     /\ call.fn = "fold_global"
     /\ are_all_measurements_terminal(call.input)
     /\ RLe(One, call.stretch))
    => out.err = "none"

\* C11: the circuit fold_global returns has about stretch * n gates, n the
\* gate count of the input: the two differ by at most 2.
C11_GlobalGateCount ==
    (Returned /\ call.fn = "fold_global" /\ out.err = "none")
    => Abs(GateCount(out.circuit) * call.stretch[2]
               - call.stretch[1] * GateCount(call.input))
           <= 2 * call.stretch[2]

\* The measurement-stripped input.
Base == batch_remove_measurements(call.input)

\* C12: fold_global with stretch = 4 returns the measurement-stripped base
\* circuit, its inverse and the base circuit again, 3n gates, and the
\* measurements of the input.
C12_StretchFourOneGlobalFold ==
    (/\ Returned
     /\ call.fn = "fold_global"
     /\ call.stretch = <<4, 1>>
     /\ are_all_measurements_terminal(call.input))
    => /\ out.err = "none"
       /\ SameCircuit(batch_remove_measurements(out.circuit),
                      Base \o Reverse([i \in DOMAIN Base |-> inverse_moment(Base[i])])
                           \o Base)
       /\ GateCount(out.circuit) = 3 * GateCount(call.input)
       /\ Range(MeasurementsOf(out.circuit)) = Range(MeasurementsOf(call.input))
       /\ Len(MeasurementsOf(out.circuit)) = Len(MeasurementsOf(call.input))

\* A call of _fold_gate_at_index_in_moment that folded a gate.
GateFolded ==
    /\ Returned
    /\ call.fn = "_fold_gate_at_index_in_moment"
    /\ out.err = "None"

\* C13: a single-gate fold at (m, j) grows the circuit by 2 moments and 2
\* gates: the moments at m and m + 1 hold G and G^-1, G the gate that was at
\* (m, j); the moments before m stay, those from m on move up by 2, each with
\* its operations.
C13_SingleGateFold ==
    GateFolded
    => LET m == call.moment_indices[1]
           j == call.gate_indices[1][1]
           G == call.input[m + 1][j + 1]
       IN /\ Len(circuit) = Len(call.input) + 2
          /\ GateCount(circuit) = GateCount(call.input) + 2
          /\ ~_is_measurement(G)
          /\ circuit[m + 1] = <<G>>
          /\ circuit[m + 2] = <<[G EXCEPT !.inv = ~G.inv]>>
          /\ \A i \in 1..m : circuit[i] = call.input[i]
          /\ \A i \in (m + 1)..Len(call.input) : circuit[i + 2] = call.input[i]

\* The second gate of the last of two moments was folded.
C13_Witness ==
    /\ GateFolded
    /\ Len(call.input) = 2
    /\ call.moment_indices[1] = 1
    /\ call.gate_indices[1][1] = 1

\* The circuit in which each moment whose index is in the set listed appears
\* as M, M^-1, M and every other moment once; i is the index of Head(c).
RECURSIVE Tripled(_, _, _)
Tripled(c, listed, i) ==
    IF Len(c) = 0 THEN << >>
    ELSE (IF i \in listed
          THEN <<Head(c), [k \in DOMAIN Head(c) |-> [Head(c)[k] EXCEPT !.inv = ~@]],
                 Head(c)>>
          ELSE <<Head(c)>>)
         \o Tripled(Tail(c), listed, i + 1)

\* C14: for a list of distinct valid moment indices in any order, the moments
\* listed holding gates only (a measurement has no inverse), fold_moments
\* returns the circuit in which each listed moment M appears as
\* M, M^-1, M and every other moment once, in the original order.
C14_FoldMomentsAnyOrder ==
    (/\ Returned
     /\ call.fn = "fold_moments"
     /\ \A i \in Range(call.moment_indices) : ~HasMeasurement(call.input[i + 1]))
    => /\ out.err = "none"
       /\ SameCircuit(out.circuit, Tripled(call.input, Range(call.moment_indices), 0))

\* g = floor(stretch / 3), the number of global folds.
GlobalFoldsOf(stretch) == stretch[1] \div (3 * stretch[2])

\* round(n * (r - 1) / 2) for the remainder r = stretch - 3 * g.
LocalFoldsOf(stretch, n) ==
    RoundHalfEven(n * (stretch[1] - 3 * GlobalFoldsOf(stretch) * stretch[2] - stretch[2]),
                  2 * stretch[2])

\* C15: in the circuit fold_global returns, the finishing local pass has
\* folded exactly round(n * (r - 1) / 2) gates, n the gate count of the
\* input, whatever the number g of global folds: the circuit holds the
\* (2 * g + 1) * n gates of the global folds and 2 more per local fold.
C15_LocalFinishCount ==
    (/\ Returned
     /\ call.fn = "fold_global"
     /\ out.err = "none")
    => GateCount(out.circuit)
           = (2 * GlobalFoldsOf(call.stretch) + 1) * GateCount(call.input)
                 + 2 * LocalFoldsOf(call.stretch, GateCount(call.input))

\* A fold_gates_at_random call that enters the loop: measurements terminal,
\* stretch in [1, 3) and not within 1e-3 of 3.
RandomLoopEntered ==
    /\ Returned
    /\ call.fn = "fold_gates_at_random"
    /\ are_all_measurements_terminal(call.input)
    /\ RLe(One, call.stretch) /\ RLt(call.stretch, Three)
    /\ ~isclose(call.stretch, 3, AtolThree)

\* k, the number of iterations.
Budget == _get_num_to_fold(call.stretch, GateCount(call.input))

\* The loop of the call after t iterations.
LoopAfter(t) ==
    RandomFolds(call.input, Base, t, Seeded(call.seedarg, call.rng))

RECURSIVE SumOver(_, _)
SumOver(f, S) ==
    IF S = {} THEN 0
    ELSE LET x == CHOOSE y \in S : TRUE IN f[x] + SumOver(f, S \ {x})

\* How many positions of original moment i have been selected.
Selected(st, i) == Len(call.input[i + 1]) - Len(st.remaining_gate_indices[i])

\* C16: every iteration of fold_gates_at_random selects a position that
\* holds a gate of the stripped working circuit and was not selected before:
\* the call returns a circuit in which k distinct gates are folded once each,
\* and the eligible moments are those with a non-empty remaining set.
C16_RandomPicksValid ==
    RandomLoopEntered
    => /\ out.err = "none"
       /\ GateCount(out.circuit) = GateCount(call.input) + 2 * Budget
       /\ LET st == LoopAfter(Budget)
              moments == 0..(Len(call.input) - 1)
          IN /\ st.out.err = "none"
             /\ SumOver([i \in moments |-> Selected(st, i)], moments) = Budget
             /\ \A i \in moments :
                    \A j \in 0..(Len(call.input[i + 1]) - 1) :
                        (\A x \in DOMAIN st.remaining_gate_indices[i] :
                             st.remaining_gate_indices[i][x] # j)
                            => (j < Len(Base[i + 1]) /\ ~_is_measurement(Base[i + 1][j + 1]))
             /\ Range(st.remaining_moment_indices)
                    = {i \in moments : Len(st.remaining_gate_indices[i]) > 0}

\* moment_indices tracks the moments of the working circuit: original moment
\* i sits at moment_indices[i], which is i + 2 * (folds made in the original
\* moments 0..i), and the map is strictly increasing.
MomentsTracked(st) ==
    LET moments == 0..(Len(call.input) - 1)
    IN /\ \A i \in moments :
            /\ st.moment_indices[i] < Len(st.out.circuit)
            /\ st.out.circuit[st.moment_indices[i] + 1] = Base[i + 1]
            /\ st.moment_indices[i]
                   = i + 2 * SumOver([j \in moments |-> Selected(st, j)], 0..i)
       /\ \A i, j \in moments : i < j => st.moment_indices[i] < st.moment_indices[j]

\* C17: after every iteration of the loop of fold_gates_at_random, for each
\* original moment index i, the working circuit holds original moment i at
\* moment_indices[i] = i + 2 * (folds so far in original moments <= i), and
\* the map is strictly increasing.
C17_MomentIndexMap ==
    RandomLoopEntered
    => \A t \in 0..Budget :
           LoopAfter(t).out.err = "none" => MomentsTracked(LoopAfter(t))

\* Two gates were folded, one of them in the first of two moments.
C17_Witness ==
    /\ RandomLoopEntered
    /\ out.err = "none"
    /\ Len(call.input) = 2
    /\ Budget = 2
    /\ Selected(LoopAfter(2), 0) > 0
    /\ LoopAfter(2).moment_indices[1] > 1

\* G, G^-1 in moments of their own for each of the first b operations of a
\* moment.
RECURSIVE PairsOf(_, _)
PairsOf(moment, b) ==
    IF b = 0 \/ Len(moment) = 0 THEN << >>
    ELSE << <<Head(moment)>>, <<[Head(moment) EXCEPT !.inv = ~@]>> >>
             \o PairsOf(Tail(moment), b - 1)

\* The circuit c with its first b gates, in (moment index, position) order,
\* folded once each: the pairs of a moment's gates come right ahead of it.
RECURSIVE FirstFolded(_, _)
FirstFolded(c, b) ==
    IF Len(c) = 0 THEN << >>
    ELSE LET here == IF b < Len(Head(c)) THEN b ELSE Len(Head(c))
         IN PairsOf(Head(c), here) \o <<Head(c)>> \o FirstFolded(Tail(c), b - here)

\* C18: for measurements all terminal, stretch in [1, 3] and a budget
\* k = round(n * (stretch - 1) / 2) >= 1, fold_gates_from_left returns the
\* circuit in which exactly the first k gates, in (moment, position) order,
\* are folded once each, at the current index of their moment.
C18_FirstGatesFolded ==
    (/\ Returned
     /\ call.fn = "fold_gates_from_left"
     /\ are_all_measurements_terminal(call.input)
     /\ InRange(call.stretch)
     /\ Budget >= 1)
    => /\ out.err = "none"
       /\ SameCircuit(batch_remove_measurements(out.circuit), FirstFolded(Base, Budget))

RECURSIVE Pow3(_)
Pow3(i) == IF i = 0 THEN 1 ELSE 3 * Pow3(i - 1)

\* min(stretch / 3^i, 3)
StageFactor(stretch, i) ==
    IF stretch[1] > 3 * Pow3(i) * stretch[2] THEN <<3, 1>>
    ELSE <<stretch[1], Pow3(i) * stretch[2]>>

\* The least j >= 1 with stretch / 3^j <= 1.
RECURSIVE NumStages(_)
NumStages(stretch) ==
    IF stretch[1] <= 3 * stretch[2] THEN 1
    ELSE 1 + NumStages(<<stretch[1], 3 * stretch[2]>>)

RECURSIVE RunStages(_, _, _, _, _)
\* Stage i was made; the stages i + 1 .. J - 1 follow unless it raised.
StagesAfter(res, stretch, method, i) ==
    IF res.out.err # "none" THEN [out |-> res.out, rng |-> res.rng]
    ELSE RunStages(res.out.circuit, stretch, method, res.rng, i + 1)

\* The stages i .. J - 1, stage i applying the strategy with the factor
\* min(stretch / 3^i, 3) to the circuit c; an exception of the strategy ends
\* the call.
RunStages(c, stretch, method, r, i) ==
    IF i >= NumStages(stretch) THEN [out |-> Ok(c), rng |-> r]
    ELSE StagesAfter(ApplyMethod(method, c, StageFactor(stretch, i), r),
                     stretch, method, i)

\* C19: for a stretch > 1 outside the tolerance of 1, fold_local makes
\* exactly J stages, J the least j >= 1 with stretch / 3^j <= 1; stage i
\* applies the strategy with factor min(stretch / 3^i, 3) to the output of
\* stage i - 1 (the input for i = 0); every factor lies in (1, 3].
C19_LocalStages ==
    (/\ Returned
     /\ call.fn = "fold_local"
     /\ RLt(One, call.stretch)
     /\ ~isclose(call.stretch, 1, AtolOne))
    => /\ SameOutcome(out, RunStages(call.input, call.stretch, call.method,
                                     call.rng, 0).out)
       /\ rng = RunStages(call.input, call.stretch, call.method, call.rng, 0).rng
       /\ \A i \in 0..(NumStages(call.stretch) - 1) :
              /\ RLt(One, StageFactor(call.stretch, i))
              /\ RLe(StageFactor(call.stretch, i), Three)

\* Two stages, 3 and 5/2, were made with fold_gates_from_right on a circuit
\* with measurements, and the second one folded gates.
C19_Witness ==
    /\ Returned
    /\ call.fn = "fold_local"
    /\ call.stretch = <<15, 2>>
    /\ call.method.name = "right"
    /\ NumStages(call.stretch) = 2
    /\ out.err = "none"
    /\ Len(MeasurementsOf(call.input)) > 0
    /\ GateCount(out.circuit) > 3 * GateCount(call.input)
====
